---- MODULE Spec2Model ----
(***************************************************************************)
(* KeyCloakService (keycloak.service.ts): the OIDC integration layer.      *)
(* The service object, its cached discovery document, the fire-and-forget  *)
(* startup discovery and the four public async operations, each split at   *)
(* its await points.                                                       *)
(***************************************************************************)
EXTENDS Integers, Sequences, FiniteSets, TLC

(* ---------------- bounds ---------------- *)

\* number of public-operation calls the host makes on the service
MaxCalls == 1

Calls == 1..MaxCalls

(* ---------------- values ---------------- *)

\* JavaScript `undefined` in a string-valued slot
Undefined == "<undefined>"

\* JavaScript `undefined` in an object-valued slot
NoObject == [undefined |-> TRUE]

\* JavaScript truthiness of a string-or-undefined value, as `ok(value)` tests it
Truthy(v) == v # Undefined /\ v # ""

\* what ConfigService.get can return for one key: unset, set but empty, set
EnvValues(v) == {Undefined, "", v}

\* the six settings read by the constructor
Envs ==
  [ server_uri          : EnvValues("http://kc"),
    realm               : EnvValues("realm1"),
    user_client_id      : EnvValues("user-id"),
    user_client_secret  : EnvValues("user-secret"),
    admin_client_id     : EnvValues("admin-id"),
    admin_client_secret : EnvValues("admin-secret") ]

\* OIDCIdentityConfig: every field is optional
DocFull ==
  [ issuer |-> "iss1", introspection_endpoint |-> "http://kc/introspect",
    jwks_uri |-> "http://kc/certs", token_endpoint |-> "http://kc/token" ]

\* discovery documents the provider may answer with
Docs ==
  { DocFull,
    [DocFull EXCEPT !.issuer = "iss2"],
    [DocFull EXCEPT !.issuer = Undefined],
    [DocFull EXCEPT !.introspection_endpoint = Undefined],
    [DocFull EXCEPT !.jwks_uri = Undefined],
    [DocFull EXCEPT !.token_endpoint = Undefined] }

\* `private config: OIDCIdentityConfig;` is declared without an initialiser
UndefinedConfig == NoObject

VARIABLES
  env,            \* what the ConfigService holds
  phase,          \* "new" | "ready" | "failed": the constructor's outcome
  ctorError,      \* message of the assertion that aborted the constructor
  server_uri, realm, clientUser, clientAdmin,   \* readonly fields
  config,         \* this.config
  disc,           \* startup discovery promise: "none" | "pending" | "done" | "failed"
  discoveryRequests,  \* loadJSON calls issued for the discovery document
  lastDiscovered, \* the document of the last successful discovery fetch
  consoleErrors,  \* what the startup catch handler wrote with console.error
  unhandledRejection,
  calls           \* the host's calls of the public operations

vars == << env, phase, ctorError, server_uri, realm, clientUser, clientAdmin,
           config, disc, discoveryRequests, lastDiscovered, consoleErrors,
           unhandledRejection, calls >>

fields == << server_uri, realm, clientUser, clientAdmin >>
startup == << disc, discoveryRequests, lastDiscovered, consoleErrors, unhandledRejection >>

IdleCall ==
  [ op |-> "none", pc |-> "idle", arg |-> NoObject, reqs |-> << >>,
    resps |-> << >>, tok |-> NoObject, err |-> "none", ret |-> NoObject,
    pems |-> NoObject, verifyCalls |-> 0, logged |-> 0 ]

Init ==
  /\ env \in Envs
  /\ phase = "new"
  /\ ctorError = "none"
  /\ server_uri = Undefined
  /\ realm = Undefined
  /\ clientUser = NoObject
  /\ clientAdmin = NoObject
  /\ config = UndefinedConfig
  /\ disc = "none"
  /\ discoveryRequests = 0
  /\ lastDiscovered = NoObject
  /\ consoleErrors = {}
  /\ unhandledRejection = FALSE
  /\ calls = [c \in Calls |-> IdleCall]

(* ---------------- constructor ---------------- *)

\* the assertions with the check of the admin client secret left out
CtorAssertion_NoAdminSecret(e) ==
  IF ~Truthy(e.realm) THEN "\"realm\" is not defined."
  ELSE IF ~Truthy(e.server_uri) THEN "\"metadata_uri\" is not defined."
  ELSE IF ~Truthy(e.user_client_id) THEN "\"client_id\" is not defined."
  ELSE IF ~Truthy(e.admin_client_id) THEN "Admin \"client_id\" is not defined."
  ELSE "none"

\* the five ok(...) assertions, in source order; "none" when all pass
CtorAssertion(e) ==
  IF ~Truthy(e.realm) THEN "\"realm\" is not defined."
  ELSE IF ~Truthy(e.server_uri) THEN "\"metadata_uri\" is not defined."
  ELSE IF ~Truthy(e.user_client_id) THEN "\"client_id\" is not defined."
  ELSE IF ~Truthy(e.admin_client_id) THEN "Admin \"client_id\" is not defined."
  ELSE IF ~Truthy(e.admin_client_secret) THEN "Admin \"client_secret\" is not defined."
  ELSE "none"

Construct ==
  /\ phase = "new"
  /\ server_uri' = env.server_uri
  /\ realm' = env.realm
  /\ clientUser' = [client_id |-> env.user_client_id,
                    client_secret |-> env.user_client_secret]
  /\ clientAdmin' = [client_id |-> env.admin_client_id,
                     client_secret |-> env.admin_client_secret]
  /\ ctorError' = CtorAssertion(env)
  /\ IF CtorAssertion(env) # "none"
       THEN /\ phase' = "failed"
            /\ UNCHANGED << disc, discoveryRequests >>
       ELSE /\ phase' = "ready"
            /\ disc' = "pending"
            /\ discoveryRequests' = discoveryRequests + 1
  /\ UNCHANGED << env, config, lastDiscovered, consoleErrors, unhandledRejection, calls >>

(* ---------------- discovery ---------------- *)

\* the promise discovery() returns, left without a catch handler
StartupCatch_Missing(err) == [logged |-> {}, unhandled |-> TRUE]

\* `.catch((err) => console.error(err))` on the promise discovery() returns
StartupCatch(err) == [logged |-> {err}, unhandled |-> FALSE]

\* the document copied member by member, one member forgotten
DiscoveryAssign_Partial(old, doc) == [doc EXCEPT !.token_endpoint = Undefined]

\* `this.config = (await loadJSON(...))`: the assignment runs when the fetch resolves
DiscoveryAssign(old, doc) == doc

DiscoveryResolve ==
  /\ disc = "pending"
  /\ \E doc \in Docs :
       /\ config' = DiscoveryAssign(config, doc)
       /\ lastDiscovered' = doc
  /\ disc' = "done"
  /\ UNCHANGED << env, phase, ctorError, fields, discoveryRequests, consoleErrors,
                  unhandledRejection, calls >>

\* the awaited loadJSON rejects: the assignment never runs, the catch handler does
DiscoveryReject ==
  /\ disc = "pending"
  /\ disc' = "failed"
  /\ consoleErrors' = consoleErrors \cup StartupCatch("TransportError").logged
  /\ unhandledRejection' = (unhandledRejection \/ StartupCatch("TransportError").unhandled)
  /\ UNCHANGED << env, phase, ctorError, fields, config, discoveryRequests,
                  lastDiscovered, calls >>


(* ---------------- HTTP collaborator ---------------- *)

NoAuth == << >>

\* one request handed to HttpClientService
Request(method, url, body, auth) ==
  [method |-> method, url |-> url, body |-> body, auth |-> auth]

\* Token objects the token endpoint may answer with
TokenResponses ==
  { [token_type |-> "Bearer", access_token |-> "at1"],
    [token_type |-> "bearer", access_token |-> "at2"] }

\* JSON Web Keys: kid, key type and the key material
Jwk(kid, kty, mat) == [kid |-> kid, kty |-> kty, mat |-> mat]

\* bodies the jwks_uri may answer with; the first has no "keys" member
JwksResponses ==
  { [other |-> "x"],
    [keys |-> << >>],
    [keys |-> << Jwk("kid1", "RSA", "keyA") >>],
    [keys |-> << Jwk("kid1", "RSA", "keyA"), Jwk("kid2", "EC", "keyB") >>],
    [keys |-> << Jwk("kid1", "RSA", "keyA"), Jwk("kid1", "RSA", "keyB") >>],
    [keys |-> << Jwk("kid1", "RSA", "keyA"), Jwk("kid2", "OKP", "keyB") >>] }

Kids == {"kid1", "kid2"}

\* presented JWTs: the key that signed them, their iss claim, whether exp has passed
Jwt(signedBy, iss, expired) == [signedBy |-> signedBy, iss |-> iss, expired |-> expired]

Jwts ==
  { Jwt("keyA", "iss1", FALSE),
    Jwt("keyA", "iss2", FALSE),
    Jwt("keyA", "iss1", TRUE),
    Jwt("keyB", "iss1", FALSE) }

(* ---------------- library functions ---------------- *)

\* qs.stringify of a flat object: members whose value is undefined are skipped
stringify(obj) == [k \in {x \in DOMAIN obj : obj[x] # Undefined} |-> obj[k]]

\* jwk-to-pem: handles RSA and EC keys, throws on every other key type
jwkToPemThrows(key) == key.kty \notin {"RSA", "EC"}

jwkToPem(key) == << "PEM", key.mat >>

\* jsonwebtoken verify(token, pem, {issuer}): signature, then exp, then issuer;
\* the issuer is compared only when the option is set
verify(token, pem, issuer) ==
  IF pem # << "PEM", token.signedBy >> THEN [err |-> "JsonWebTokenError", ret |-> NoObject]
  ELSE IF token.expired THEN [err |-> "TokenExpiredError", ret |-> NoObject]
  ELSE IF Truthy(issuer) /\ token.iss # issuer
    THEN [err |-> "JsonWebTokenError", ret |-> NoObject]
  ELSE [err |-> "none", ret |-> [iss |-> token.iss]]

(* ---------------- generateToken ---------------- *)

GenerateTokenDatas == { [username |-> "alice", password |-> "pw"],
                        [username |-> "", password |-> ""] }

\* the password branch built with the admin client's credentials
PasswordGrant_AdminClient(tokenData) ==
  [k \in DOMAIN tokenData \cup {"grant_type", "client_id", "client_secret"} |->
     IF k = "grant_type" THEN "password"
     ELSE IF k = "client_id" THEN clientAdmin.client_id
     ELSE IF k = "client_secret" THEN clientAdmin.client_secret
     ELSE tokenData[k]]

\* the object literal of the password branch: the spread members first, then the
\* three fixed members, which override a spread member of the same name
PasswordGrant(tokenData) ==
  [k \in DOMAIN tokenData \cup {"grant_type", "client_id", "client_secret"} |->
     IF k = "grant_type" THEN "password"
     ELSE IF k = "client_id" THEN clientUser.client_id
     ELSE IF k = "client_secret" THEN clientUser.client_secret
     ELSE tokenData[k]]

ClientCredentialsGrant ==
  [grant_type |-> "client_credentials",
   client_id |-> clientAdmin.client_id,
   client_secret |-> clientAdmin.client_secret]

\* lines 168-183: the form body, chosen by the truthiness of tokenData
GenerateTokenBody(tokenData) ==
  IF tokenData # NoObject
    THEN stringify(PasswordGrant(tokenData))
    ELSE stringify(ClientCredentialsGrant)

\* lines 185-197, up to the returned promise: reading this.config.token_endpoint
\* throws a TypeError while this.config is undefined (caught, logged, rethrown);
\* otherwise the POST is issued with whatever token_endpoint holds
GenerateTokenStart(call, tokenData) ==
  IF config = UndefinedConfig
    THEN [call EXCEPT !.pc = "done", !.err = "TypeError", !.logged = @ + 1]
    ELSE [call EXCEPT !.pc = "awaitToken",
            !.reqs = Append(@, Request("POST", config.token_endpoint,
                                       GenerateTokenBody(tokenData), NoAuth))]

InvokeGenerateToken(c) ==
  /\ phase = "ready"
  /\ calls[c].pc = "idle"
  /\ \E tokenData \in GenerateTokenDatas \cup {NoObject} :
       calls' = [calls EXCEPT ![c] =
         GenerateTokenStart([IdleCall EXCEPT !.op = "generateToken",
                                              !.arg = [tokenData |-> tokenData]],
                            tokenData)]
  /\ UNCHANGED << env, phase, ctorError, fields, config, startup >>

\* the token POST settles; what happens next depends on the awaiting operation
\* `${token_type} ${access_token}`
Authorization(token) == << token.token_type, token.access_token >>

\* lines 115-122: the introspection POST, bearing the token just received
IntrospectContinue(call) ==
  [call EXCEPT !.pc = "awaitIntrospect",
     !.reqs = Append(@, Request("POST", config.introspection_endpoint,
                                stringify([token |-> call.arg.token]),
                                Authorization(call.tok)))]

RegisterUserBody(data) ==
  [firstName |-> data.firstName, lastName |-> data.lastName, email |-> data.email,
   enabled |-> TRUE, username |-> data.email,
   credentials |-> << [type |-> "password", value |-> data.password,
                       temporary |-> FALSE] >>]

UsersUrl == << server_uri, "/admin/realms/", realm, "/users" >>

\* lines 135-160: the user-creation POST, bearing the token just received
RegisterContinue(call) ==
  [call EXCEPT !.pc = "awaitUsers",
     !.reqs = Append(@, Request("POST", UsersUrl, RegisterUserBody(call.arg),
                                Authorization(call.tok)))]

TokenResolve(c) ==
  /\ calls[c].pc = "awaitToken"
  /\ \E token \in TokenResponses :
       LET got == [calls[c] EXCEPT !.resps = Append(@, "resolved"), !.tok = token]
       IN calls' = [calls EXCEPT ![c] =
            CASE got.op = "generateToken"   -> [got EXCEPT !.pc = "done", !.ret = token]
              [] got.op = "introspectToken" -> IntrospectContinue(got)
              [] got.op = "registerUser"    -> RegisterContinue(got)]
  /\ UNCHANGED << env, phase, ctorError, fields, config, startup >>

\* the token POST rejects: every awaiting operation rejects with the same error
TokenReject(c) ==
  /\ calls[c].pc = "awaitToken"
  /\ calls' = [calls EXCEPT ![c] = [@ EXCEPT !.pc = "done", !.err = "TransportError",
                                                !.resps = Append(@, "rejected")]]
  /\ UNCHANGED << env, phase, ctorError, fields, config, startup >>

(* ---------------- introspectToken ---------------- *)

IntrospectTokens == {"abc"}

IntrospectionResponses == { [active |-> "true"] }

\* lines 109-114, up to the first await: the ok(...) guard reads a member of
\* this.config, which throws a TypeError while this.config is undefined
IntrospectStart(call) ==
  IF config = UndefinedConfig
    THEN [call EXCEPT !.pc = "done", !.err = "TypeError"]
  ELSE IF ~Truthy(config.introspection_endpoint)
    THEN [call EXCEPT !.pc = "done", !.err = "AssertionError"]
  ELSE GenerateTokenStart(call, NoObject)

InvokeIntrospectToken(c) ==
  /\ phase = "ready"
  /\ calls[c].pc = "idle"
  /\ \E token \in IntrospectTokens :
       calls' = [calls EXCEPT ![c] =
         IntrospectStart([IdleCall EXCEPT !.op = "introspectToken",
                                           !.arg = [token |-> token]])]
  /\ UNCHANGED << env, phase, ctorError, fields, config, startup >>

IntrospectResolve(c) ==
  /\ calls[c].pc = "awaitIntrospect"
  /\ \E r \in IntrospectionResponses :
       calls' = [calls EXCEPT ![c] = [@ EXCEPT !.pc = "done", !.ret = r,
                                                 !.resps = Append(@, "resolved")]]
  /\ UNCHANGED << env, phase, ctorError, fields, config, startup >>

IntrospectReject(c) ==
  /\ calls[c].pc = "awaitIntrospect"
  /\ calls' = [calls EXCEPT ![c] = [@ EXCEPT !.pc = "done", !.err = "TransportError",
                                                !.resps = Append(@, "rejected")]]
  /\ UNCHANGED << env, phase, ctorError, fields, config, startup >>

(* ---------------- registerUser ---------------- *)

RegisterUserDatas ==
  { [email |-> "a@b.com", firstName |-> "A", lastName |-> "B", password |-> "p"] }

\* lines 131-133: the admin token is requested first; a throw of generateToken
\* rejects registerUser with the same error
InvokeRegisterUser(c) ==
  /\ phase = "ready"
  /\ calls[c].pc = "idle"
  /\ \E data \in RegisterUserDatas :
       calls' = [calls EXCEPT ![c] =
         GenerateTokenStart([IdleCall EXCEPT !.op = "registerUser", !.arg = data],
                            NoObject)]
  /\ UNCHANGED << env, phase, ctorError, fields, config, startup >>

UsersResolve(c) ==
  /\ calls[c].pc = "awaitUsers"
  /\ calls' = [calls EXCEPT ![c] = [@ EXCEPT !.pc = "done",
                                                !.resps = Append(@, "resolved")]]
  /\ UNCHANGED << env, phase, ctorError, fields, config, startup >>

\* lines 161-164: `catch (err) { this.log.error(err); throw err; }`
RegisterCatch(call, err) == [call EXCEPT !.pc = "done", !.err = err, !.logged = @ + 1]

UsersReject(c) ==
  /\ calls[c].pc = "awaitUsers"
  /\ calls' = [calls EXCEPT ![c] =
       RegisterCatch([@ EXCEPT !.resps = Append(@, "rejected")], "TransportError")]
  /\ UNCHANGED << env, phase, ctorError, fields, config, startup >>

(* ---------------- verifyToken ---------------- *)

\* lines 206-210, up to the await: the guard on jwks_uri, then the fetch
GetJWKsStart(call) ==
  IF config = UndefinedConfig
    THEN [call EXCEPT !.pc = "done", !.err = "TypeError"]
  ELSE IF ~Truthy(config.jwks_uri)
    THEN [call EXCEPT !.pc = "done", !.err = "AssertionError"]
  ELSE [call EXCEPT !.pc = "awaitJWKs",
          !.reqs = Append(@, Request("GET", config.jwks_uri, NoObject, NoAuth))]

InvokeVerifyToken(c) ==
  /\ phase = "ready"
  /\ calls[c].pc = "idle"
  /\ \E token \in Jwts, kid \in Kids :
       calls' = [calls EXCEPT ![c] =
         GetJWKsStart([IdleCall EXCEPT !.op = "verifyToken",
                                        !.arg = [token |-> token, kid |-> kid]])]
  /\ UNCHANGED << env, phase, ctorError, fields, config, startup >>

\* new Map(data.keys.map(key => [key.kid, jwkToPem(key)])): a later entry with
\* the same kid replaces an earlier one
PemMap(keys) ==
  [kid \in {keys[i].kid : i \in DOMAIN keys} |->
     LET last == CHOOSE i \in DOMAIN keys :
                   /\ keys[i].kid = kid
                   /\ \A j \in DOMAIN keys : keys[j].kid = kid => j <= i
     IN jwkToPem(keys[last])]

\* verifyToken without the pems.has(kid) guard: verify gets an undefined key
VerifyWithPems_NoLookup(call, pems) ==
  LET pem == IF call.arg.kid \in DOMAIN pems THEN pems[call.arg.kid] ELSE << >>
      r == verify(call.arg.token, pem, config.issuer)
  IN [call EXCEPT !.pc = "done", !.err = r.err, !.ret = r.ret, !.verifyCalls = @ + 1]

\* lines 97-105: the lookup of kid, then the signature and issuer check
VerifyWithPems(call, pems) ==
  IF call.arg.kid \notin DOMAIN pems
    THEN [call EXCEPT !.pc = "done", !.err = "UnauthorizedException"]
    ELSE LET r == verify(call.arg.token, pems[call.arg.kid], config.issuer)
         IN [call EXCEPT !.pc = "done", !.err = r.err, !.ret = r.ret,
                         !.verifyCalls = @ + 1]

\* lines 212-220, then the rest of verifyToken
JWKsLoaded(call, data) ==
  IF "keys" \notin DOMAIN data
    THEN [call EXCEPT !.pc = "done", !.err = "InternalServerErrorException"]
  ELSE IF \E i \in DOMAIN data.keys : jwkToPemThrows(data.keys[i])
    THEN [call EXCEPT !.pc = "done", !.err = "Error"]
  ELSE VerifyWithPems([call EXCEPT !.pems = PemMap(data.keys)], PemMap(data.keys))

JWKsResolve(c) ==
  /\ calls[c].pc = "awaitJWKs"
  /\ \E data \in JwksResponses :
       calls' = [calls EXCEPT ![c] =
         JWKsLoaded([@ EXCEPT !.resps = Append(@, "resolved")], data)]
  /\ UNCHANGED << env, phase, ctorError, fields, config, startup >>

JWKsReject(c) ==
  /\ calls[c].pc = "awaitJWKs"
  /\ calls' = [calls EXCEPT ![c] = [@ EXCEPT !.pc = "done", !.err = "TransportError",
                                                !.resps = Append(@, "rejected")]]
  /\ UNCHANGED << env, phase, ctorError, fields, config, startup >>

(* ======================= properties ======================= *)

Invoked(c) == calls[c].pc # "idle"
Done(c) == calls[c].pc = "done"

\* getJWKs returned a key map to verifyToken
HasPems(c) == calls[c].op = "verifyToken" /\ Done(c) /\ calls[c].resps = << "resolved" >>
                /\ calls[c].err \notin {"InternalServerErrorException", "Error"}

\* C1: a verifyToken call whose fetched key set has no entry for kid fails with
\* UnauthorizedException, returns nothing and never reaches jsonwebtoken verify.
C1_UnknownKidUnauthorized ==
  \A c \in Calls :
    (HasPems(c) /\ calls[c].arg.kid \notin DOMAIN calls[c].pems)
      => /\ calls[c].err = "UnauthorizedException"
         /\ calls[c].ret = NoObject
         /\ calls[c].verifyCalls = 0

\* the token was signed by a published key, but presented under another kid
C1_Witness ==
  \E c \in Calls :
    /\ HasPems(c)
    /\ calls[c].arg.kid \notin DOMAIN calls[c].pems
    /\ \E k \in DOMAIN calls[c].pems :
         calls[c].pems[k] = << "PEM", calls[c].arg.token.signedBy >>
    /\ calls[c].err = "UnauthorizedException"

\* C2: verifyToken returns claims only for a token whose signature is valid under
\* the key of kid and whose iss equals the cached issuer; every other outcome of
\* the check (bad signature, expired, issuer mismatch) is an UnauthorizedException.
C2_ClaimsOnlyIfValidElseUnauthorized ==
  \A c \in Calls :
    (HasPems(c) /\ calls[c].arg.kid \in DOMAIN calls[c].pems)
      => LET token == calls[c].arg.token
             good  == /\ calls[c].pems[calls[c].arg.kid] = << "PEM", token.signedBy >>
                      /\ ~token.expired
                      /\ token.iss = config.issuer
         IN IF good
              THEN calls[c].err = "none" /\ calls[c].ret = [iss |-> token.iss]
              ELSE calls[c].err = "UnauthorizedException" /\ calls[c].ret = NoObject

IsTokenRequest(r) == r.method = "POST" /\ "grant_type" \in DOMAIN r.body

Range(f) == {f[k] : k \in DOMAIN f}

\* C3 (as stated): the token request of generateToken() is exactly the
\* client-credentials body with the admin id and secret; that of
\* generateToken({username, password}) is exactly the five-member password body
\* with the user id and secret.
C3_ExactGrantBodies ==
  \A c \in Calls : \A i \in DOMAIN calls[c].reqs :
    (calls[c].op = "generateToken" /\ IsTokenRequest(calls[c].reqs[i])) =>
      LET td == calls[c].arg.tokenData
          body == calls[c].reqs[i].body
      IN IF td = NoObject
           THEN body = [grant_type |-> "client_credentials",
                        client_id |-> clientAdmin.client_id,
                        client_secret |-> clientAdmin.client_secret]
           ELSE body = [grant_type |-> "password",
                        username |-> td.username, password |-> td.password,
                        client_id |-> clientUser.client_id,
                        client_secret |-> clientUser.client_secret]

\* C3 (amended): as above, except that the password body carries client_secret
\* only when the user client has one configured: with the secret unset the body
\* is exactly {grant_type, username, password, client_id}. Admin credentials
\* never appear in a password body, user credentials never in a
\* client-credentials body.
C3_GrantBodies ==
  \A c \in Calls : \A i \in DOMAIN calls[c].reqs :
    (calls[c].op = "generateToken" /\ IsTokenRequest(calls[c].reqs[i])) =>
      LET td == calls[c].arg.tokenData
          body == calls[c].reqs[i].body
      IN IF td = NoObject
           THEN /\ body = [grant_type |-> "client_credentials",
                           client_id |-> clientAdmin.client_id,
                           client_secret |-> clientAdmin.client_secret]
                /\ \A v \in {clientUser.client_id, clientUser.client_secret} :
                     Truthy(v) => v \notin Range(body)
           ELSE /\ IF clientUser.client_secret = Undefined
                     THEN body = [grant_type |-> "password",
                                  username |-> td.username, password |-> td.password,
                                  client_id |-> clientUser.client_id]
                     ELSE body = [grant_type |-> "password",
                                  username |-> td.username, password |-> td.password,
                                  client_id |-> clientUser.client_id,
                                  client_secret |-> clientUser.client_secret]
                /\ clientAdmin.client_id \notin Range(body)
                /\ clientAdmin.client_secret \notin Range(body)

\* a password grant has been requested by a user client that has a secret
C3_Witness ==
  \E c \in Calls :
    /\ calls[c].op = "generateToken"
    /\ calls[c].arg.tokenData # NoObject
    /\ Len(calls[c].reqs) = 1
    /\ IsTokenRequest(calls[c].reqs[1])
    /\ Truthy(clientUser.client_secret)
    /\ calls[c].reqs[1].body.client_secret = clientUser.client_secret

\* the operation `op` is invoked on call c in this step
Invokes(c, op) == calls[c].pc = "idle" /\ calls'[c].op = op

TokenEndpointMissing ==
  IF config = UndefinedConfig THEN TRUE ELSE ~Truthy(config.token_endpoint)

IntrospectionEndpointMissing ==
  IF config = UndefinedConfig THEN TRUE ELSE ~Truthy(config.introspection_endpoint)

\* C4: generateToken invoked while the config is empty, or populated without a
\* token_endpoint, fails with a configuration (assertion) error and issues no POST.
C4_GenerateTokenRequiresEndpoint ==
  [][\A c \in Calls :
       (Invokes(c, "generateToken") /\ TokenEndpointMissing)
         => /\ calls'[c].pc = "done"
            /\ calls'[c].err = "AssertionError"
            /\ calls'[c].reqs = << >>]_vars

\* C5: introspectToken invoked while the config is empty, or populated without
\* an introspection_endpoint, fails with a configuration (assertion) error before
\* any request: neither the token POST nor the introspection POST is issued.
C5_IntrospectRequiresEndpoint ==
  [][\A c \in Calls :
       (Invokes(c, "introspectToken") /\ IntrospectionEndpointMissing)
         => /\ calls'[c].pc = "done"
            /\ calls'[c].err = "AssertionError"
            /\ calls'[c].reqs = << >>]_vars

AdminTokenRequest ==
  Request("POST", config.token_endpoint,
          [grant_type |-> "client_credentials", client_id |-> clientAdmin.client_id,
           client_secret |-> clientAdmin.client_secret], NoAuth)

\* the request sequence of a registerUser call that got past its token request
RegisterRequestsOrdered(c) ==
  LET call == calls[c] IN
  /\ Len(call.reqs) \in {1, 2}
  /\ call.reqs[1] = AdminTokenRequest
  /\ Len(call.reqs) = 2 =>
       /\ call.resps[1] = "resolved"
       /\ call.reqs[2].method = "POST"
       /\ call.reqs[2].url = << server_uri, "/admin/realms/", realm, "/users" >>
       /\ call.reqs[2].auth = << call.tok.token_type, call.tok.access_token >>
       /\ call.tok \in TokenResponses
  /\ (Len(call.resps) >= 1 /\ call.resps[1] = "rejected") => Len(call.reqs) = 1
  /\ (call.pc = "done") =>
       /\ Len(call.resps) = Len(call.reqs)
       /\ (call.err = "none") <=> (call.resps = << "resolved", "resolved" >>)
       /\ (\E i \in DOMAIN call.resps : call.resps[i] = "rejected")
            => call.err = "TransportError"
  /\ (call.pc # "done") => Len(call.resps) = Len(call.reqs) - 1

\* C6: every registerUser call issues exactly one client-credentials token
\* request and, only after it succeeded, exactly one POST to the users endpoint
\* bearing the token just obtained; a failed token request means no users POST;
\* a failure of either request is the call's error.
C6_EveryRegisterRequestsToken ==
  \A c \in Calls :
    (Invoked(c) /\ calls[c].op = "registerUser") => RegisterRequestsOrdered(c)

\* C7: a failed startup discovery is caught and logged, is no unhandled rejection
\* and no construction failure, and leaves the cached config as it was (empty).
C7_StartupFailureContained ==
  /\ ~unhandledRejection
  /\ disc = "failed" =>
       /\ phase = "ready"
       /\ consoleErrors = {"TransportError"}
       /\ config = UndefinedConfig

\* the startup fetch failed and the service went on serving a call
C7_Witness ==
  /\ disc = "failed"
  /\ \E c \in Calls : Done(c)

\* C8: an operation invoked while the config is empty and no discovery fetch is
\* in flight triggers a discovery fetch.
C8_LazyRediscovery ==
  [][\A c \in Calls :
       (calls[c].pc = "idle" /\ calls'[c].pc # "idle"
          /\ config = UndefinedConfig /\ disc # "pending")
         => discoveryRequests' > discoveryRequests]_vars

AllSixSet ==
  /\ Truthy(env.server_uri) /\ Truthy(env.realm)
  /\ Truthy(env.user_client_id) /\ Truthy(env.user_client_secret)
  /\ Truthy(env.admin_client_id) /\ Truthy(env.admin_client_secret)

FiveRequiredSet ==
  /\ Truthy(env.server_uri) /\ Truthy(env.realm)
  /\ Truthy(env.user_client_id)
  /\ Truthy(env.admin_client_id) /\ Truthy(env.admin_client_secret)

\* C9 (as stated): with any of the six settings missing the constructor fails
\* with a message before the discovery request is issued.
C9_SixRequired ==
  (phase # "new" /\ ~AllSixSet)
    => /\ phase = "failed"
       /\ ctorError # "none"
       /\ discoveryRequests = 0

\* C9 (amended): the constructor fails fast, before the discovery request, when
\* server URI, realm, user client id, admin client id or admin client secret is
\* missing; the user client secret is optional and is not checked.
C9_FiveRequired ==
  /\ (phase # "new" /\ ~FiveRequiredSet)
       => /\ phase = "failed"
          /\ ctorError # "none"
          /\ discoveryRequests = 0
          /\ disc = "none"
  /\ phase = "ready" => FiveRequiredSet /\ ctorError = "none"

\* construction was refused because only the admin client secret is missing
C9_Witness ==
  /\ phase = "failed"
  /\ ~Truthy(env.admin_client_secret)
  /\ Truthy(env.server_uri) /\ Truthy(env.realm)
  /\ Truthy(env.user_client_id) /\ Truthy(env.admin_client_id)

\* C10: the cached config is only ever replaced by the whole document of a
\* successful fetch: it is empty or equal to the last fetched document, and once
\* populated it is never empty again.
C10_WholeDocumentReplace ==
  /\ [](/\ config \in Docs \cup {UndefinedConfig}
        /\ config = lastDiscovered
        /\ disc = "done" => config \in Docs)
  /\ [][config # UndefinedConfig => config' # UndefinedConfig]_vars

\* the fetch resolved after a call had already observed the empty config
C10_Witness ==
  /\ disc = "done"
  /\ config \in Docs
  /\ \E c \in Calls : Done(c) /\ calls[c].err = "TypeError"

Next ==
  \/ Construct
  \/ DiscoveryResolve
  \/ DiscoveryReject
  \/ \E c \in Calls : InvokeGenerateToken(c)
  \/ \E c \in Calls : TokenResolve(c)
  \/ \E c \in Calls : TokenReject(c)
  \/ \E c \in Calls : InvokeIntrospectToken(c)
  \/ \E c \in Calls : IntrospectResolve(c)
  \/ \E c \in Calls : IntrospectReject(c)
  \/ \E c \in Calls : InvokeRegisterUser(c)
  \/ \E c \in Calls : UsersResolve(c)
  \/ \E c \in Calls : UsersReject(c)
  \/ \E c \in Calls : InvokeVerifyToken(c)
  \/ \E c \in Calls : JWKsResolve(c)
  \/ \E c \in Calls : JWKsReject(c)

Spec == Init /\ [][Next]_vars
====
